---- MODULE Spec2Model ----
(***************************************************************************)
(* Model of the in-memory role based access control store of src/lib.rs:   *)
(* InMemoryRbac with its two relation maps, the four mutations, the two    *)
(* iterator constructors and the three derived boolean queries.            *)
(*                                                                         *)
(* A HashMap<K, HashSet<V>> is a function whose DOMAIN is the set of keys  *)
(* and whose values are sets.  A HashSet iterator is a sequence holding    *)
(* every member once, in an order the hasher decides: every order is       *)
(* possible, so an iteration is a choice among the orders.                 *)
(***************************************************************************)
EXTENDS Integers, Sequences, FiniteSets

\* ------------------------------------------------------------------ bounds
\* the number of users the callers know
NumUsers == 2

\* ------------------------------------------------------------------- ids
\* tests/test.rs: users are numbered from 10 (gandalf, elrond, ...), the
\* roles are agent 110 and salesperson 111, the permissions make_calls 210
\* and enter_information 211
FirstUserId == 10

UserIds == FirstUserId .. (FirstUserId + NumUsers - 1)
RoleIds == {110, 111}
PermissionIds == {210, 211}

\* the entity values: struct MyUser { id }, MyRole { id }, MyPermission { id }
MyUser == [id : UserIds]
MyRole == [id : RoleIds]
MyPermission == [id : PermissionIds]

\* Identifiable::get_rbac_id: self.id
get_rbac_id(self) == self.id

\* ---------------------------------------------------------------- results
Ok(v) == [ok |-> TRUE, val |-> v]
Err(e) == [ok |-> FALSE, err |-> e]

\* enum InMemoryRbacError
UserHasNoRoles == "UserHasNoRoles"
RoleHasNoPermissions == "RoleHasNoPermissions"

\* ------------------------------------------------- HashMap and HashSet
\* HashMap::new()
HashMapNew == [k \in {} |-> {}]

\* HashMap::insert / the write through an entry: key k now maps to v
MapPut(m, k, v) == [x \in (DOMAIN m) \cup {k} |-> IF x = k THEN v ELSE m[x]]

\* OccupiedEntry::remove_entry: key k is no longer a key
MapRemoveEntry(m, k) == [x \in (DOMAIN m) \ {k} |-> m[x]]

\* entry(k).or_insert_with(HashSet::new): the map with k present
OrInsertEmpty(m, k) == IF k \in DOMAIN m THEN m ELSE MapPut(m, k, {})

\* every order a HashSet's iterator may yield its members in
RECURSIVE IterOrders(_)
IterOrders(S) ==
    IF S = {} THEN {<<>>}
    ELSE UNION {{<<x>> \o rest : rest \in IterOrders(S \ {x})} : x \in S}

\* Iterator::any over the sequence it: the items examined are the prefix up
\* to and including the first one satisfying the predicate (short circuit)
RECURSIVE FirstMatch(_, _, _)
FirstMatch(it, Hit, i) ==
    IF i > Len(it) THEN 0
    ELSE IF it[i] \in Hit THEN i
    ELSE FirstMatch(it, Hit, i + 1)

\* any(): Hit is the set of items for which the closure returns true
IterAny(it, Hit) == FirstMatch(it, Hit, 1) # 0

\* the items any() has taken from the iterator when it returns
IterExamined(it, Hit) ==
    IF FirstMatch(it, Hit, 1) = 0 THEN it
    ELSE SubSeq(it, 1, FirstMatch(it, Hit, 1))

\* ------------------------------------------------------------------ state
VARIABLES
    data_user_roles,         \* InMemoryRbac.data_user_roles
    data_role_permissions,   \* InMemoryRbac.data_role_permissions
    last,                    \* the last call: its name, arguments and result
    old_user_roles,          \* data_user_roles when the last call began
    old_role_permissions,    \* data_role_permissions when the last call began
    prev,                    \* the call before the last one, when it was a
                             \* mutation of the entry the last call is about
    assigned,                \* the <<user id, role id>> pairs whose latest
                             \* assign_role / unassign_role call was assign_role
    granted,                 \* the <<role id, permission id>> pairs whose latest
                             \* add_permission / remove_permission call was
                             \* add_permission
    exclusive                \* a mutation holds &mut self and has not returned

vars == <<data_user_roles, data_role_permissions, last,
          old_user_roles, old_role_permissions, prev, assigned, granted,
          exclusive>>

\* -------------------------------------------------------------- iterators
\* variant: a user without entry gets an empty iterator instead of the error
iter_user_role_ids_or_empty(user_roles, user) ==
    IF get_rbac_id(user) \in DOMAIN user_roles
    THEN {Ok(it) : it \in IterOrders(user_roles[get_rbac_id(user)])}
    ELSE {Ok(<<>>)}

\* iter_user_role_ids: the role set of the user, or UserHasNoRoles
iter_user_role_ids(user_roles, user) ==
    IF get_rbac_id(user) \in DOMAIN user_roles
    THEN {Ok(it) : it \in IterOrders(user_roles[get_rbac_id(user)])}
    ELSE {Err(UserHasNoRoles)}

\* variant: a role without entry gets an empty iterator instead of the error
iter_role_permission_ids_or_empty(role_permissions, role) ==
    IF get_rbac_id(role) \in DOMAIN role_permissions
    THEN {Ok(it) : it \in IterOrders(role_permissions[get_rbac_id(role)])}
    ELSE {Ok(<<>>)}

\* iter_role_permission_ids: the permission set of the role, or
\* RoleHasNoPermissions
iter_role_permission_ids(role_permissions, role) ==
    IF get_rbac_id(role) \in DOMAIN role_permissions
    THEN {Ok(it) : it \in IterOrders(role_permissions[get_rbac_id(role)])}
    ELSE {Err(RoleHasNoPermissions)}

\* -------------------------------------------------------------- mutations
\* each yields the map after the call and the call's result

\* variant: the result tells whether the entry was created, not whether the
\* role was inserted
assign_role_ret_created(user_roles, user, role) ==
    LET m == OrInsertEmpty(user_roles, get_rbac_id(user))
        entry == m[get_rbac_id(user)]
    IN  [map |-> MapPut(m, get_rbac_id(user), entry \cup {get_rbac_id(role)}),
         ret |-> Ok(get_rbac_id(user) \notin DOMAIN user_roles)]

\* assign_role: entry(user).or_insert_with(HashSet::new), then insert(role);
\* HashSet::insert is true iff the value was not present
assign_role(user_roles, user, role) ==
    LET m == OrInsertEmpty(user_roles, get_rbac_id(user))
        entry == m[get_rbac_id(user)]
    IN  [map |-> MapPut(m, get_rbac_id(user), entry \cup {get_rbac_id(role)}),
         ret |-> Ok(get_rbac_id(role) \notin entry)]

\* variant: the emptied set is left in the map (no remove_entry)
unassign_role_no_prune(user_roles, user, role) ==
    IF get_rbac_id(user) \in DOMAIN user_roles
    THEN LET val == user_roles[get_rbac_id(user)]
         IN  [map |-> MapPut(user_roles, get_rbac_id(user),
                             val \ {get_rbac_id(role)}),
              ret |-> Ok(get_rbac_id(role) \in val)]
    ELSE [map |-> user_roles, ret |-> Ok(FALSE)]

\* variant: the whole entry is removed whenever the role was present
unassign_role_drop_entry(user_roles, user, role) ==
    IF get_rbac_id(user) \in DOMAIN user_roles
    THEN LET val == user_roles[get_rbac_id(user)]
         IN  [map |-> IF get_rbac_id(role) \in val
                      THEN MapRemoveEntry(user_roles, get_rbac_id(user))
                      ELSE user_roles,
              ret |-> Ok(get_rbac_id(role) \in val)]
    ELSE [map |-> user_roles, ret |-> Ok(FALSE)]

\* variant: the role is removed from every user that has it (as a store
\* deleting the role itself would do)
unassign_role_all_users(user_roles, user, role) ==
    LET keep == {u \in DOMAIN user_roles :
                    user_roles[u] \ {get_rbac_id(role)} # {}}
    IN  [map |-> [u \in keep |-> user_roles[u] \ {get_rbac_id(role)}],
         ret |-> Ok(/\ get_rbac_id(user) \in DOMAIN user_roles
                    /\ get_rbac_id(role) \in user_roles[get_rbac_id(user)])]

\* variant: a vacant entry is reported as the error UserHasNoRoles
unassign_role_vacant_err(user_roles, user, role) ==
    IF get_rbac_id(user) \in DOMAIN user_roles
    THEN LET val == user_roles[get_rbac_id(user)]
             rest == val \ {get_rbac_id(role)}
         IN  [map |-> IF rest = {}
                      THEN MapRemoveEntry(user_roles, get_rbac_id(user))
                      ELSE MapPut(user_roles, get_rbac_id(user), rest),
              ret |-> Ok(get_rbac_id(role) \in val)]
    ELSE [map |-> user_roles, ret |-> Err(UserHasNoRoles)]

\* unassign_role: on an occupied entry remove(role), which is true iff the
\* value was present, then remove_entry if the set is empty; on a vacant
\* entry Ok(false)
unassign_role(user_roles, user, role) ==
    IF get_rbac_id(user) \in DOMAIN user_roles
    THEN LET val == user_roles[get_rbac_id(user)]
             was_present == get_rbac_id(role) \in val
             rest == val \ {get_rbac_id(role)}
         IN  [map |-> IF rest = {}
                      THEN MapRemoveEntry(user_roles, get_rbac_id(user))
                      ELSE MapPut(user_roles, get_rbac_id(user), rest),
              ret |-> Ok(was_present)]
    ELSE [map |-> user_roles, ret |-> Ok(FALSE)]

\* variant: the result tells whether the entry was created, not whether the
\* permission was inserted
add_permission_ret_created(role_permissions, role, permission) ==
    LET m == OrInsertEmpty(role_permissions, get_rbac_id(role))
        entry == m[get_rbac_id(role)]
    IN  [map |-> MapPut(m, get_rbac_id(role),
                        entry \cup {get_rbac_id(permission)}),
         ret |-> Ok(get_rbac_id(role) \notin DOMAIN role_permissions)]

\* add_permission: entry(role).or_insert_with(HashSet::new), then
\* insert(permission)
add_permission(role_permissions, role, permission) ==
    LET m == OrInsertEmpty(role_permissions, get_rbac_id(role))
        entry == m[get_rbac_id(role)]
    IN  [map |-> MapPut(m, get_rbac_id(role),
                        entry \cup {get_rbac_id(permission)}),
         ret |-> Ok(get_rbac_id(permission) \notin entry)]

\* variant: the emptied set is left in the map (no remove_entry)
remove_permission_no_prune(role_permissions, role, permission) ==
    IF get_rbac_id(role) \in DOMAIN role_permissions
    THEN LET val == role_permissions[get_rbac_id(role)]
         IN  [map |-> MapPut(role_permissions, get_rbac_id(role),
                             val \ {get_rbac_id(permission)}),
              ret |-> Ok(get_rbac_id(permission) \in val)]
    ELSE [map |-> role_permissions, ret |-> Ok(FALSE)]

\* variant: the entry is taken with or_insert_with, so a role without entry
\* gets one, and it is pruned only when the permission was present
remove_permission_creates_entry(role_permissions, role, permission) ==
    LET m == OrInsertEmpty(role_permissions, get_rbac_id(role))
        val == m[get_rbac_id(role)]
        rest == val \ {get_rbac_id(permission)}
    IN  [map |-> IF get_rbac_id(permission) \in val /\ rest = {}
                 THEN MapRemoveEntry(m, get_rbac_id(role))
                 ELSE MapPut(m, get_rbac_id(role), rest),
         ret |-> Ok(get_rbac_id(permission) \in val)]

\* variant: the whole entry is removed whenever the permission was present
remove_permission_drop_entry(role_permissions, role, permission) ==
    IF get_rbac_id(role) \in DOMAIN role_permissions
    THEN LET val == role_permissions[get_rbac_id(role)]
         IN  [map |-> IF get_rbac_id(permission) \in val
                      THEN MapRemoveEntry(role_permissions, get_rbac_id(role))
                      ELSE role_permissions,
              ret |-> Ok(get_rbac_id(permission) \in val)]
    ELSE [map |-> role_permissions, ret |-> Ok(FALSE)]

\* variant: the result is read after the removal (is the set still non-empty)
remove_permission_ret_nonempty(role_permissions, role, permission) ==
    IF get_rbac_id(role) \in DOMAIN role_permissions
    THEN LET val == role_permissions[get_rbac_id(role)]
             rest == val \ {get_rbac_id(permission)}
         IN  [map |-> IF rest = {}
                      THEN MapRemoveEntry(role_permissions, get_rbac_id(role))
                      ELSE MapPut(role_permissions, get_rbac_id(role), rest),
              ret |-> Ok(rest # {})]
    ELSE [map |-> role_permissions, ret |-> Ok(FALSE)]

\* remove_permission: as unassign_role, on the role-permission map
remove_permission(role_permissions, role, permission) ==
    IF get_rbac_id(role) \in DOMAIN role_permissions
    THEN LET val == role_permissions[get_rbac_id(role)]
             was_present == get_rbac_id(permission) \in val
             rest == val \ {get_rbac_id(permission)}
         IN  [map |-> IF rest = {}
                      THEN MapRemoveEntry(role_permissions, get_rbac_id(role))
                      ELSE MapPut(role_permissions, get_rbac_id(role), rest),
              ret |-> Ok(was_present)]
    ELSE [map |-> role_permissions, ret |-> Ok(FALSE)]

\* ---------------------------------------------------------------- queries
\* each yields the set of outcomes the iteration orders allow; an outcome
\* is the result together with the items any() examined

\* variant: the error of the iteration is returned instead of Ok(false)
user_has_role_propagate(user_roles, user, role) ==
    {IF res.ok
     THEN [ret |-> Ok(IterAny(res.val, {get_rbac_id(role)})),
           examined |-> IterExamined(res.val, {get_rbac_id(role)})]
     ELSE [ret |-> res, examined |-> <<>>]
       : res \in iter_user_role_ids(user_roles, user)}

\* RbacModel::user_has_role (default method): any(r == role id) over
\* iter_user_role_ids, an error is Ok(false)
user_has_role(user_roles, user, role) ==
    {IF res.ok
     THEN [ret |-> Ok(IterAny(res.val, {get_rbac_id(role)})),
           examined |-> IterExamined(res.val, {get_rbac_id(role)})]
     ELSE [ret |-> Ok(FALSE), examined |-> <<>>]
       : res \in iter_user_role_ids(user_roles, user)}

\* variant: true as soon as the role has any permission at all
role_has_permission_nonempty(role_permissions, role, permission) ==
    {IF res.ok
     THEN [ret |-> Ok(res.val # <<>>),
           examined |-> IF res.val = <<>> THEN <<>> ELSE <<Head(res.val)>>]
     ELSE [ret |-> Ok(FALSE), examined |-> <<>>]
       : res \in iter_role_permission_ids(role_permissions, role)}

\* RbacModel::role_has_permission (default method): any(p == permission id)
\* over iter_role_permission_ids, an error is Ok(false)
role_has_permission(role_permissions, role, permission) ==
    {IF res.ok
     THEN [ret |-> Ok(IterAny(res.val, {get_rbac_id(permission)})),
           examined |-> IterExamined(res.val, {get_rbac_id(permission)})]
     ELSE [ret |-> Ok(FALSE), examined |-> <<>>]
       : res \in iter_role_permission_ids(role_permissions, role)}

\* the closure of user_has_permission is true of role id r iff r is a key
\* of the role-permission map and its set contains the permission's id
GrantingRoles(role_permissions, permission) ==
    {r \in DOMAIN role_permissions :
        get_rbac_id(permission) \in role_permissions[r]}

\* variant: a role without permission entry met by the iteration is reported
\* as the error RoleHasNoPermissions
user_has_permission_err(user_roles, role_permissions, user, permission) ==
    IF get_rbac_id(user) \in DOMAIN user_roles
    THEN {LET Hit == GrantingRoles(role_permissions, permission)
              seen == IterExamined(it, Hit)
          IN  [ret |-> IF \E i \in 1 .. Len(seen) :
                             seen[i] \notin DOMAIN role_permissions
                       THEN Err(RoleHasNoPermissions)
                       ELSE Ok(IterAny(it, Hit)),
               examined |-> seen]
            : it \in IterOrders(user_roles[get_rbac_id(user)])}
    ELSE {[ret |-> Ok(FALSE), examined |-> <<>>]}

\* variant: every role is looked at, also after a match
user_has_permission_no_short(user_roles, role_permissions, user, permission) ==
    IF get_rbac_id(user) \in DOMAIN user_roles
    THEN {[ret |-> Ok(IterAny(it, GrantingRoles(role_permissions, permission))),
           examined |-> it]
            : it \in IterOrders(user_roles[get_rbac_id(user)])}
    ELSE {[ret |-> Ok(FALSE), examined |-> <<>>]}

\* variant: only the first role the iterator yields is looked at
user_has_permission_first(user_roles, role_permissions, user, permission) ==
    IF get_rbac_id(user) \in DOMAIN user_roles
    THEN {[ret |-> Ok(it # <<>> /\ Head(it) \in
                        GrantingRoles(role_permissions, permission)),
           examined |-> IF it = <<>> THEN it ELSE <<Head(it)>>]
            : it \in IterOrders(user_roles[get_rbac_id(user)])}
    ELSE {[ret |-> Ok(FALSE), examined |-> <<>>]}

\* InMemoryRbac::user_has_permission: get(user), then any() over the role
\* set with the closure above; no entry is Ok(false)
user_has_permission(user_roles, role_permissions, user, permission) ==
    IF get_rbac_id(user) \in DOMAIN user_roles
    THEN {[ret |-> Ok(IterAny(it, GrantingRoles(role_permissions, permission))),
           examined |-> IterExamined(it, GrantingRoles(role_permissions,
                                                       permission))]
            : it \in IterOrders(user_roles[get_rbac_id(user)])}
    ELSE {[ret |-> Ok(FALSE), examined |-> <<>>]}

\* ---------------------------------------------------------------- actions
UserRoleMutations == {"assign_role", "unassign_role"}
RolePermissionMutations == {"add_permission", "remove_permission"}

\* the calls that name a <<user, role>> pair, and those that name a
\* <<role, permission>> pair
UserRoleCalls == UserRoleMutations \cup {"user_has_role"}
RolePermissionCalls == RolePermissionMutations \cup {"role_has_permission"}

\* call b is about the relation that the mutation a has just written: the
\* same pair, or for an iteration the same key
SameEntry(a, b) ==
    \/ /\ a.op \in UserRoleMutations
       /\ \/ b.op \in UserRoleCalls /\ b.user = a.user /\ b.role = a.role
          \/ b.op = "iter_user_role_ids" /\ b.user = a.user
    \/ /\ a.op \in RolePermissionMutations
       /\ \/ /\ b.op \in RolePermissionCalls
             /\ b.role = a.role
             /\ b.permission = a.permission
          \/ b.op = "iter_role_permission_ids" /\ b.role = a.role

NoCall == [call |-> [op |-> "none"],
           user_roles |-> HashMapNew, role_permissions |-> HashMapNew]

\* InMemoryRbac::new(): two empty maps
Init ==
    /\ data_user_roles = HashMapNew
    /\ data_role_permissions = HashMapNew
    /\ last = [op |-> "new"]
    /\ old_user_roles = HashMapNew
    /\ old_role_permissions = HashMapNew
    /\ prev = NoCall
    /\ assigned = {}
    /\ granted = {}
    /\ exclusive = FALSE

\* the bookkeeping of a call: the maps it began with, and the call before it
Record(call) ==
    /\ last' = call
    /\ old_user_roles' = data_user_roles
    /\ old_role_permissions' = data_role_permissions
    /\ prev' = IF SameEntry(last, call)
               THEN [call |-> last, user_roles |-> old_user_roles,
                     role_permissions |-> old_role_permissions]
               ELSE NoCall

\* variant: a caller gets &self while a mutation holds &mut self
SharedAccessUnchecked == TRUE

\* a call taking &self can be made only while no &mut self is held
SharedAccess == ~exclusive

\* a call taking &mut self can be made only while no other borrow is held
\* (a shared borrow lasts for one query here, so only &mut self can be held)
ExclusiveAccess == ~exclusive

\* variant: the lookup goes through entry(..).or_insert_with(HashSet::new),
\* which leaves an empty set for a key the map did not have
QueryInserting(call) ==
    /\ SharedAccess
    /\ data_user_roles' =
          IF call.op \in {"iter_user_role_ids", "user_has_role",
                          "user_has_permission"}
          THEN OrInsertEmpty(data_user_roles, call.user.id)
          ELSE data_user_roles
    /\ data_role_permissions' =
          IF call.op \in {"iter_role_permission_ids", "role_has_permission"}
          THEN OrInsertEmpty(data_role_permissions, call.role.id)
          ELSE data_role_permissions
    /\ UNCHANGED <<assigned, granted, exclusive>>
    /\ Record(call)

\* a query takes &self and reads the maps with get(): neither map can change
Query(call) ==
    /\ SharedAccess
    /\ UNCHANGED <<data_user_roles, data_role_permissions, assigned, granted,
                   exclusive>>
    /\ Record(call)

CallAssignRole ==
    \E user \in MyUser, role \in MyRole :
        LET r == assign_role(data_user_roles, user, role) IN
        /\ ExclusiveAccess
        /\ data_user_roles' = r.map
        /\ UNCHANGED <<data_role_permissions, granted, exclusive>>
        /\ assigned' = assigned \cup {<<user.id, role.id>>}
        /\ Record([op |-> "assign_role", user |-> user, role |-> role,
                   ret |-> r.ret])

CallUnassignRole ==
    \E user \in MyUser, role \in MyRole :
        LET r == unassign_role(data_user_roles, user, role) IN
        /\ ExclusiveAccess
        /\ data_user_roles' = r.map
        /\ UNCHANGED <<data_role_permissions, granted, exclusive>>
        /\ assigned' = assigned \ {<<user.id, role.id>>}
        /\ Record([op |-> "unassign_role", user |-> user, role |-> role,
                   ret |-> r.ret])

CallAddPermission ==
    \E role \in MyRole, permission \in MyPermission :
        LET r == add_permission(data_role_permissions, role, permission) IN
        /\ ExclusiveAccess
        /\ data_role_permissions' = r.map
        /\ UNCHANGED <<data_user_roles, assigned, exclusive>>
        /\ granted' = granted \cup {<<role.id, permission.id>>}
        /\ Record([op |-> "add_permission", role |-> role,
                   permission |-> permission, ret |-> r.ret])

CallRemovePermission ==
    \E role \in MyRole, permission \in MyPermission :
        LET r == remove_permission(data_role_permissions, role, permission) IN
        /\ ExclusiveAccess
        /\ data_role_permissions' = r.map
        /\ UNCHANGED <<data_user_roles, assigned, exclusive>>
        /\ granted' = granted \ {<<role.id, permission.id>>}
        /\ Record([op |-> "remove_permission", role |-> role,
                   permission |-> permission, ret |-> r.ret])

CallIterUserRoleIds ==
    \E user \in MyUser :
        \E res \in iter_user_role_ids(data_user_roles, user) :
            Query([op |-> "iter_user_role_ids", user |-> user, ret |-> res])

CallIterRolePermissionIds ==
    \E role \in MyRole :
        \E res \in iter_role_permission_ids(data_role_permissions, role) :
            Query([op |-> "iter_role_permission_ids", role |-> role,
                   ret |-> res])

CallUserHasRole ==
    \E user \in MyUser, role \in MyRole :
        \E out \in user_has_role(data_user_roles, user, role) :
            Query([op |-> "user_has_role", user |-> user, role |-> role,
                   ret |-> out.ret, examined |-> out.examined])

CallRoleHasPermission ==
    \E role \in MyRole, permission \in MyPermission :
        \E out \in role_has_permission(data_role_permissions, role,
                                       permission) :
            Query([op |-> "role_has_permission", role |-> role,
                   permission |-> permission,
                   ret |-> out.ret, examined |-> out.examined])

CallUserHasPermission ==
    \E user \in MyUser, permission \in MyPermission :
        \E out \in user_has_permission(data_user_roles, data_role_permissions,
                                       user, permission) :
            Query([op |-> "user_has_permission", user |-> user,
                   permission |-> permission,
                   ret |-> out.ret, examined |-> out.examined])

Next ==
    \/ CallAssignRole
    \/ CallUnassignRole
    \/ CallAddPermission
    \/ CallRemovePermission
    \/ CallIterUserRoleIds
    \/ CallIterRolePermissionIds
    \/ CallUserHasRole
    \/ CallRoleHasPermission
    \/ CallUserHasPermission

Spec == Init /\ [][Next]_vars

\* ------------------------------------------------- the mutations by step
\* Each mutation as its two statements, with &mut self held in between.
\* The call is recorded when it begins, its result when it returns.

\* the result of a call that has not returned
Pending == [pending |-> TRUE]

\* the call returns: its result is known and &mut self is released
Return(ret) ==
    /\ last' = [last EXCEPT !.ret = ret]
    /\ exclusive' = FALSE
    /\ UNCHANGED <<old_user_roles, old_role_permissions, prev>>

\* assign_role, first statement: entry(user).or_insert_with(HashSet::new)
BeginAssignRole ==
    \E user \in MyUser, role \in MyRole :
        /\ ExclusiveAccess
        /\ exclusive' = TRUE
        /\ data_user_roles' = OrInsertEmpty(data_user_roles, get_rbac_id(user))
        /\ UNCHANGED <<data_role_permissions, assigned, granted>>
        /\ Record([op |-> "assign_role", user |-> user, role |-> role,
                   ret |-> Pending])

\* assign_role, second statement: Ok(entry.insert(role))
FinishAssignRole ==
    /\ exclusive
    /\ last.op = "assign_role"
    /\ LET u == get_rbac_id(last.user)
           r == get_rbac_id(last.role)
       IN  /\ data_user_roles'
              = MapPut(data_user_roles, u, data_user_roles[u] \cup {r})
           /\ assigned' = assigned \cup {<<u, r>>}
           /\ Return(Ok(r \notin data_user_roles[u]))
    /\ UNCHANGED <<data_role_permissions, granted>>

\* unassign_role, first statement: on an occupied entry
\* val.get_mut().remove(role)
BeginUnassignRole ==
    \E user \in MyUser, role \in MyRole :
        /\ ExclusiveAccess
        /\ exclusive' = TRUE
        /\ data_user_roles' =
              IF get_rbac_id(user) \in DOMAIN data_user_roles
              THEN MapPut(data_user_roles, get_rbac_id(user),
                          data_user_roles[get_rbac_id(user)]
                          \ {get_rbac_id(role)})
              ELSE data_user_roles
        /\ UNCHANGED <<data_role_permissions, assigned, granted>>
        /\ Record([op |-> "unassign_role", user |-> user, role |-> role,
                   ret |-> Pending])

\* unassign_role, second statement: remove_entry if the set is empty, then
\* Ok(was_present); on a vacant entry Ok(false)
FinishUnassignRole ==
    /\ exclusive
    /\ last.op = "unassign_role"
    /\ LET u == get_rbac_id(last.user)
           r == get_rbac_id(last.role)
       IN  /\ data_user_roles' =
                 IF u \in DOMAIN data_user_roles /\ data_user_roles[u] = {}
                 THEN MapRemoveEntry(data_user_roles, u)
                 ELSE data_user_roles
           /\ assigned' = assigned \ {<<u, r>>}
           /\ Return(Ok(u \in DOMAIN old_user_roles
                        /\ r \in old_user_roles[u]))
    /\ UNCHANGED <<data_role_permissions, granted>>

\* add_permission, first statement: entry(role).or_insert_with(HashSet::new)
BeginAddPermission ==
    \E role \in MyRole, permission \in MyPermission :
        /\ ExclusiveAccess
        /\ exclusive' = TRUE
        /\ data_role_permissions'
           = OrInsertEmpty(data_role_permissions, get_rbac_id(role))
        /\ UNCHANGED <<data_user_roles, assigned, granted>>
        /\ Record([op |-> "add_permission", role |-> role,
                   permission |-> permission, ret |-> Pending])

\* add_permission, second statement: Ok(entry.insert(permission))
FinishAddPermission ==
    /\ exclusive
    /\ last.op = "add_permission"
    /\ LET r == get_rbac_id(last.role)
           p == get_rbac_id(last.permission)
       IN  /\ data_role_permissions'
              = MapPut(data_role_permissions, r,
                       data_role_permissions[r] \cup {p})
           /\ granted' = granted \cup {<<r, p>>}
           /\ Return(Ok(p \notin data_role_permissions[r]))
    /\ UNCHANGED <<data_user_roles, assigned>>

\* remove_permission, first statement: on an occupied entry
\* val.get_mut().remove(permission)
BeginRemovePermission ==
    \E role \in MyRole, permission \in MyPermission :
        /\ ExclusiveAccess
        /\ exclusive' = TRUE
        /\ data_role_permissions' =
              IF get_rbac_id(role) \in DOMAIN data_role_permissions
              THEN MapPut(data_role_permissions, get_rbac_id(role),
                          data_role_permissions[get_rbac_id(role)]
                          \ {get_rbac_id(permission)})
              ELSE data_role_permissions
        /\ UNCHANGED <<data_user_roles, assigned, granted>>
        /\ Record([op |-> "remove_permission", role |-> role,
                   permission |-> permission, ret |-> Pending])

\* remove_permission, second statement: remove_entry if the set is empty,
\* then Ok(was_present); on a vacant entry Ok(false)
FinishRemovePermission ==
    /\ exclusive
    /\ last.op = "remove_permission"
    /\ LET r == get_rbac_id(last.role)
           p == get_rbac_id(last.permission)
       IN  /\ data_role_permissions' =
                 IF /\ r \in DOMAIN data_role_permissions
                    /\ data_role_permissions[r] = {}
                 THEN MapRemoveEntry(data_role_permissions, r)
                 ELSE data_role_permissions
           /\ granted' = granted \ {<<r, p>>}
           /\ Return(Ok(r \in DOMAIN old_role_permissions
                        /\ p \in old_role_permissions[r]))
    /\ UNCHANGED <<data_user_roles, assigned>>

NextSteps ==
    \/ BeginAssignRole
    \/ FinishAssignRole
    \/ BeginUnassignRole
    \/ FinishUnassignRole
    \/ BeginAddPermission
    \/ FinishAddPermission
    \/ BeginRemovePermission
    \/ FinishRemovePermission
    \/ CallIterUserRoleIds
    \/ CallIterRolePermissionIds
    \/ CallUserHasRole
    \/ CallRoleHasPermission
    \/ CallUserHasPermission

\* the store with every mutation taken statement by statement
SpecSteps == Init /\ [][NextSteps]_vars

\* ------------------------------------------------- two mutations in a row
\* The store under mutations alone.  Mutate makes one call and clears the
\* history; MutateTwice makes two calls in a row and keeps both, with the
\* maps they began with.  The history holds one pair at a time: the next
\* pair is kept after a call of Mutate has cleared it.

\* the mutation calls: name and arguments
MutationCalls ==
    {[op |-> o, user |-> u, role |-> r] :
        o \in {"assign_role", "unassign_role"}, u \in MyUser, r \in MyRole}
    \cup
    {[op |-> o, role |-> r, permission |-> p] :
        o \in {"add_permission", "remove_permission"},
        r \in MyRole, p \in MyPermission}

\* the <<key, member>> pair the mutation call c is about
Target(c) ==
    IF c.op \in {"assign_role", "unassign_role"}
    THEN <<get_rbac_id(c.user), get_rbac_id(c.role)>>
    ELSE <<get_rbac_id(c.role), get_rbac_id(c.permission)>>

\* the two maps after the mutation call c made on the maps of store, and
\* the result of c
Apply(store, c) ==
    IF c.op = "assign_role" THEN
        LET r == assign_role(store.user_roles, c.user, c.role)
        IN  [user_roles |-> r.map,
             role_permissions |-> store.role_permissions, ret |-> r.ret]
    ELSE IF c.op = "unassign_role" THEN
        LET r == unassign_role(store.user_roles, c.user, c.role)
        IN  [user_roles |-> r.map,
             role_permissions |-> store.role_permissions, ret |-> r.ret]
    ELSE IF c.op = "add_permission" THEN
        LET r == add_permission(store.role_permissions, c.role, c.permission)
        IN  [user_roles |-> store.user_roles,
             role_permissions |-> r.map, ret |-> r.ret]
    ELSE
        LET r == remove_permission(store.role_permissions, c.role,
                                   c.permission)
        IN  [user_roles |-> store.user_roles,
             role_permissions |-> r.map, ret |-> r.ret]

\* the store as it is
Store == [user_roles |-> data_user_roles,
          role_permissions |-> data_role_permissions]

\* the pairs with the latest call on <<key, member>> an insertion, after
\* the mutation call c
AssignedAfter(pairs, c) ==
    IF c.op = "assign_role" THEN pairs \cup {Target(c)}
    ELSE IF c.op = "unassign_role" THEN pairs \ {Target(c)}
    ELSE pairs

GrantedAfter(pairs, c) ==
    IF c.op = "add_permission" THEN pairs \cup {Target(c)}
    ELSE IF c.op = "remove_permission" THEN pairs \ {Target(c)}
    ELSE pairs

\* one mutation call, of which no history is kept
Mutate ==
    /\ ExclusiveAccess
    /\ \E c \in MutationCalls :
        LET after == Apply(Store, c) IN
        /\ data_user_roles' = after.user_roles
        /\ data_role_permissions' = after.role_permissions
        /\ assigned' = AssignedAfter(assigned, c)
        /\ granted' = GrantedAfter(granted, c)
        /\ last' = [op |-> "mutation"]
        /\ old_user_roles' = HashMapNew
        /\ old_role_permissions' = HashMapNew
        /\ prev' = NoCall
        /\ UNCHANGED exclusive

\* two mutation calls in a row about different <<key, member>> pairs, a
\* then b; both are kept with their results, and the maps a began with
MutateTwice ==
    /\ last.op # "pair"
    /\ ExclusiveAccess
    /\ \E a \in MutationCalls, b \in MutationCalls :
        LET s1 == Apply(Store, a)
            s2 == Apply(s1, b)
        IN
        /\ Target(a) # Target(b)
        /\ data_user_roles' = s2.user_roles
        /\ data_role_permissions' = s2.role_permissions
        /\ assigned' = AssignedAfter(AssignedAfter(assigned, a), b)
        /\ granted' = GrantedAfter(GrantedAfter(granted, a), b)
        /\ last' = [op |-> "pair", first |-> a, first_ret |-> s1.ret,
                    second |-> b, second_ret |-> s2.ret]
        /\ old_user_roles' = data_user_roles
        /\ old_role_permissions' = data_role_permissions
        /\ prev' = NoCall
        /\ UNCHANGED exclusive

NextPairs ==
    \/ Mutate
    \/ MutateTwice

\* the store under mutations, with one pair of consecutive calls kept
SpecPairs == Init /\ [][NextPairs]_vars

\* ----------------------------------------------------------------- claims
\* the set a map relates to key k: an absent key relates to nothing
Related(m, k) == IF k \in DOMAIN m THEN m[k] ELSE {}

\* the booleans a derived query can return (one per iteration order)
Returns(outcomes) == {out.ret : out \in outcomes}

\* C1: in every reachable state no key of either relation map has an empty
\* set, and a user id (role id) is a key iff at least one role (permission)
\* is assigned (granted) to it by the calls made so far.
C1_KeyIffNonEmpty ==
    /\ \A u \in DOMAIN data_user_roles : data_user_roles[u] # {}
    /\ \A r \in DOMAIN data_role_permissions : data_role_permissions[r] # {}
    /\ DOMAIN data_user_roles = {pair[1] : pair \in assigned}
    /\ DOMAIN data_role_permissions = {pair[1] : pair \in granted}

\* C1 witness: unassign_role has just removed the only role of a user and
\* the user's entry is gone, while another user keeps an entry.
C1_Witness ==
    /\ last.op = "unassign_role"
    /\ last.ret = Ok(TRUE)
    /\ Related(old_user_roles, last.user.id) = {last.role.id}
    /\ last.user.id \notin DOMAIN data_user_roles
    /\ DOMAIN data_user_roles # {}

\* C2: in every reachable state, for every user and permission, every run
\* of user_has_permission returns Ok(true) if some role has user_has_role
\* and role_has_permission both returning Ok(true), and Ok(false) otherwise.
C2_Transitivity ==
    \A user \in MyUser, permission \in MyPermission :
        Returns(user_has_permission(data_user_roles, data_role_permissions,
                                    user, permission))
        = {Ok(\E role \in MyRole :
                /\ Returns(user_has_role(data_user_roles, user, role))
                   = {Ok(TRUE)}
                /\ Returns(role_has_permission(data_role_permissions, role,
                                               permission)) = {Ok(TRUE)})}

\* C2 witness: user_has_permission has returned Ok(true) for a user with
\* two roles of which exactly one grants the permission.
C2_Witness ==
    /\ last.op = "user_has_permission"
    /\ last.ret = Ok(TRUE)
    /\ Cardinality(Related(data_user_roles, last.user.id)) = 2
    /\ Cardinality(Related(data_user_roles, last.user.id)
                   \cap GrantingRoles(data_role_permissions,
                                      last.permission)) = 1

\* C3 as stated: whenever unassign_role(u, r) directly follows
\* assign_role(u, r), both maps are what they were before the assign_role.
C3_RoundTripAlways ==
    (last.op = "unassign_role" /\ prev.call.op = "assign_role")
    => /\ data_user_roles = prev.user_roles
       /\ data_role_permissions = prev.role_permissions

\* C3 amended: whenever unassign_role(u, r) directly follows an
\* assign_role(u, r) made while r was not assigned to u, both maps are what
\* they were before the assign_role, and iter_user_role_ids(u) has the
\* outcomes it had then.
C3_RoundTripFresh ==
    (/\ last.op = "unassign_role"
     /\ prev.call.op = "assign_role"
     /\ last.role.id \notin Related(prev.user_roles, last.user.id))
    => /\ data_user_roles = prev.user_roles
       /\ data_role_permissions = prev.role_permissions
       /\ iter_user_role_ids(data_user_roles, last.user)
          = iter_user_role_ids(prev.user_roles, last.user)

\* C3 witness: assign_role(u, r) then unassign_role(u, r) on a user that had
\* no role: iter_user_role_ids(u) fails with UserHasNoRoles again.
C3_Witness ==
    /\ last.op = "unassign_role"
    /\ prev.call.op = "assign_role"
    /\ prev.call.ret = Ok(TRUE)
    /\ last.user.id \notin DOMAIN prev.user_roles
    /\ iter_user_role_ids(data_user_roles, last.user)
       = {Err(UserHasNoRoles)}

\* C4: assign_role(u, r) returns Ok(true) iff r was not assigned to u when
\* it began and Ok(false) iff it was; afterwards r is assigned to u; and a
\* second assign_role(u, r) directly after the first returns Ok(false) and
\* leaves both maps as the first left them (true then false when the first
\* call made the assignment).
C4_AssignRole ==
    last.op = "assign_role"
    => /\ last.ret
          = Ok(last.role.id \notin Related(old_user_roles, last.user.id))
       /\ last.role.id \in Related(data_user_roles, last.user.id)
       /\ prev.call.op = "assign_role"
          => /\ prev.call.ret
                = Ok(last.role.id \notin Related(prev.user_roles,
                                                 last.user.id))
             /\ last.ret = Ok(FALSE)
             /\ data_user_roles = old_user_roles
             /\ data_role_permissions = old_role_permissions

\* C4 witness: assign_role(u, r) twice in a row on a user without entry:
\* true, then false.
C4_Witness ==
    /\ last.op = "assign_role"
    /\ prev.call.op = "assign_role"
    /\ last.user.id \notin DOMAIN prev.user_roles
    /\ prev.call.ret = Ok(TRUE)
    /\ last.ret = Ok(FALSE)

\* C5: add_permission(role, p) returns Ok(true) iff p was not granted to
\* role when it began and Ok(false) iff it was; afterwards p is granted to
\* role; and a second add_permission(role, p) directly after the first
\* returns Ok(false) and changes neither map.
C5_AddPermission ==
    last.op = "add_permission"
    => /\ last.ret
          = Ok(last.permission.id \notin Related(old_role_permissions,
                                                 last.role.id))
       /\ last.permission.id \in Related(data_role_permissions, last.role.id)
       /\ prev.call.op = "add_permission"
          => /\ prev.call.ret
                = Ok(last.permission.id \notin Related(prev.role_permissions,
                                                       last.role.id))
             /\ last.ret = Ok(FALSE)
             /\ data_user_roles = old_user_roles
             /\ data_role_permissions = old_role_permissions

\* C5 witness: add_permission(role, p) twice in a row on a role without
\* entry: true, then false.
C5_Witness ==
    /\ last.op = "add_permission"
    /\ prev.call.op = "add_permission"
    /\ last.role.id \notin DOMAIN prev.role_permissions
    /\ prev.call.ret = Ok(TRUE)
    /\ last.ret = Ok(FALSE)

\* C6: unassign_role(u, r) never returns an error; it returns Ok(true) iff
\* r was assigned to u when it began, so Ok(false) when u had no entry and
\* when u had roles but not r; afterwards r is not assigned to u.
C6_UnassignRole ==
    last.op = "unassign_role"
    => /\ last.ret.ok
       /\ last.ret
          = Ok(last.role.id \in Related(old_user_roles, last.user.id))
       /\ last.user.id \notin DOMAIN old_user_roles => last.ret = Ok(FALSE)
       /\ last.role.id \notin Related(data_user_roles, last.user.id)

\* C6 witness: unassign_role(u, r) on a user whose entry the preceding
\* unassign_role(u, r) has pruned returns Ok(false).
C6_Witness ==
    /\ last.op = "unassign_role"
    /\ prev.call.op = "unassign_role"
    /\ prev.call.ret = Ok(TRUE)
    /\ last.user.id \notin DOMAIN old_user_roles
    /\ last.ret = Ok(FALSE)

\* C7: remove_permission(role, p) never returns an error; it returns
\* Ok(true) iff p was granted to role when it began, so Ok(false) when role
\* had no entry and when role had permissions but not p; afterwards p is
\* not granted to role.
C7_RemovePermission ==
    last.op = "remove_permission"
    => /\ last.ret.ok
       /\ last.ret
          = Ok(last.permission.id \in Related(old_role_permissions,
                                              last.role.id))
       /\ last.role.id \notin DOMAIN old_role_permissions
          => last.ret = Ok(FALSE)
       /\ last.permission.id
          \notin Related(data_role_permissions, last.role.id)

\* C7 witness: remove_permission(role, p) on a role that has a permission,
\* but not p, returns Ok(false) and the role keeps its entry.
C7_Witness ==
    /\ last.op = "remove_permission"
    /\ last.role.id \in DOMAIN old_role_permissions
    /\ last.permission.id \notin old_role_permissions[last.role.id]
    /\ last.ret = Ok(FALSE)
    /\ last.role.id \in DOMAIN data_role_permissions

\* the role ids assigned to user id u, and the permission ids granted to
\* role id r, by the calls made so far
AssignedTo(u) == {pair[2] : pair \in {q \in assigned : q[1] = u}}
GrantedTo(r) == {pair[2] : pair \in {q \in granted : q[1] = r}}

\* the items of a sequence
Items(it) == {it[i] : i \in 1 .. Len(it)}

\* C8: in every reachable state iter_user_role_ids(u) is
\* Err(UserHasNoRoles) iff no role is assigned to u, and otherwise Ok with
\* a sequence holding exactly the roles assigned to u and not since
\* unassigned, each once.
C8_IterUserRoleIds ==
    \A user \in MyUser :
        \A res \in iter_user_role_ids(data_user_roles, user) :
            /\ ~res.ok <=> AssignedTo(user.id) = {}
            /\ ~res.ok => res.err = UserHasNoRoles
            /\ res.ok => /\ Items(res.val) = AssignedTo(user.id)
                         /\ Len(res.val) = Cardinality(AssignedTo(user.id))

\* C8 witness: iter_user_role_ids(u) yields the one role left to u right
\* after unassign_role has removed another one.
C8_Witness ==
    /\ last.op = "iter_user_role_ids"
    /\ prev.call.op = "unassign_role"
    /\ prev.call.ret = Ok(TRUE)
    /\ last.ret.ok
    /\ Len(last.ret.val) = 1

\* C9: in every reachable state iter_role_permission_ids(role) is
\* Err(RoleHasNoPermissions) iff no permission is granted to role, and
\* otherwise Ok with a sequence holding exactly the permissions granted to
\* role and not since removed, each once.
C9_IterRolePermissionIds ==
    \A role \in MyRole :
        \A res \in iter_role_permission_ids(data_role_permissions, role) :
            /\ ~res.ok <=> GrantedTo(role.id) = {}
            /\ ~res.ok => res.err = RoleHasNoPermissions
            /\ res.ok => /\ Items(res.val) = GrantedTo(role.id)
                         /\ Len(res.val) = Cardinality(GrantedTo(role.id))

\* C9 witness: iter_role_permission_ids(role) yields two permissions.
C9_Witness ==
    /\ last.op = "iter_role_permission_ids"
    /\ last.ret.ok
    /\ Len(last.ret.val) = 2
    /\ Items(last.ret.val) = PermissionIds

\* one step of C10, for users: an unassign_role that removes the last role
\* of u leaves u without entry in that step; u stays without entry over
\* every step that is not an assign_role(u, _); and iter_user_role_ids never
\* returns an empty sequence, failing with UserHasNoRoles on a user without
\* entry.
C10_UserStep ==
    /\ \A u \in UserIds :
        /\ (/\ last'.op = "unassign_role"
            /\ last'.user.id = u
            /\ Related(data_user_roles, u) = {last'.role.id})
           => u \notin DOMAIN data_user_roles'
        /\ (/\ u \notin DOMAIN data_user_roles
            /\ ~(last'.op = "assign_role" /\ last'.user.id = u))
           => u \notin DOMAIN data_user_roles'
    /\ last'.op = "iter_user_role_ids"
       => /\ ~(last'.ret.ok /\ last'.ret.val = <<>>)
          /\ last'.user.id \notin DOMAIN data_user_roles
             => (~last'.ret.ok /\ last'.ret.err = UserHasNoRoles)

\* one step of C10, for roles: the same with remove_permission,
\* add_permission and iter_role_permission_ids.
C10_RoleStep ==
    /\ \A r \in RoleIds :
        /\ (/\ last'.op = "remove_permission"
            /\ last'.role.id = r
            /\ Related(data_role_permissions, r) = {last'.permission.id})
           => r \notin DOMAIN data_role_permissions'
        /\ (/\ r \notin DOMAIN data_role_permissions
            /\ ~(last'.op = "add_permission" /\ last'.role.id = r))
           => r \notin DOMAIN data_role_permissions'
    /\ last'.op = "iter_role_permission_ids"
       => /\ ~(last'.ret.ok /\ last'.ret.val = <<>>)
          /\ last'.role.id \notin DOMAIN data_role_permissions
             => (~last'.ret.ok /\ last'.ret.err = RoleHasNoPermissions)

\* C10: once unassign_role has removed the last role of u, the entry of u
\* is deleted in that same call and every iter_user_role_ids(u) fails with
\* UserHasNoRoles, never Ok with an empty sequence, until the next
\* assign_role(u, _); the same for remove_permission,
\* iter_role_permission_ids and add_permission.
C10_PrunedUntilReassigned == [][C10_UserStep /\ C10_RoleStep]_vars

\* C10 witness: iter_user_role_ids(u) fails with UserHasNoRoles right after
\* unassign_role has removed the last role of u.
C10_Witness ==
    /\ last.op = "iter_user_role_ids"
    /\ prev.call.op = "unassign_role"
    /\ prev.call.ret = Ok(TRUE)
    /\ ~last.ret.ok
    /\ last.ret.err = UserHasNoRoles

\* the calls by kind
Mutations == UserRoleMutations \cup RolePermissionMutations
DerivedQueries == {"user_has_role", "role_has_permission",
                   "user_has_permission"}
Iterations == {"iter_user_role_ids", "iter_role_permission_ids"}

\* C11: every call of a mutation or of a derived query, from every
\* reachable state and with every argument, has returned Ok of a boolean;
\* an error comes only from iter_user_role_ids, and then it is
\* UserHasNoRoles, or from iter_role_permission_ids, and then it is
\* RoleHasNoPermissions.
C11_OnlyIteratorsFail ==
    /\ last.op \in Mutations \cup DerivedQueries
       => (last.ret.ok /\ last.ret.val \in BOOLEAN)
    /\ (last.op = "iter_user_role_ids" /\ ~last.ret.ok)
       => last.ret.err = UserHasNoRoles
    /\ (last.op = "iter_role_permission_ids" /\ ~last.ret.ok)
       => last.ret.err = RoleHasNoPermissions

\* C11 witness: user_has_role on a user the store has never been given
\* (neither map has an entry) returns Ok(false).
C11_Witness ==
    /\ last.op = "user_has_role"
    /\ assigned = {}
    /\ data_user_roles = HashMapNew
    /\ last.ret = Ok(FALSE)

\* C12: every call of user_has_role(u, r), from every reachable state, has
\* returned Ok(true) iff iter_user_role_ids(u) succeeds there and yields
\* r's id, so Ok(false) when u has other roles only and when the iteration
\* fails; role_has_permission relates to iter_role_permission_ids in the
\* same way; user_has_role(u, r) is true right after assign_role(u, r),
\* false right after unassign_role(u, r).
C12_DerivedFromIteration ==
    /\ last.op = "user_has_role"
       => \A res \in iter_user_role_ids(data_user_roles, last.user) :
            last.ret = Ok(res.ok /\ last.role.id \in Items(res.val))
    /\ last.op = "role_has_permission"
       => \A res \in iter_role_permission_ids(data_role_permissions,
                                              last.role) :
            last.ret = Ok(res.ok /\ last.permission.id \in Items(res.val))
    /\ (last.op = "user_has_role" /\ prev.call.op = "assign_role")
       => last.ret = Ok(TRUE)
    /\ (last.op = "user_has_role" /\ prev.call.op = "unassign_role")
       => last.ret = Ok(FALSE)

\* C12 witness: user_has_role(u, r) returns Ok(false) right after
\* unassign_role(u, r) removed r from a user who keeps another role.
C12_Witness ==
    /\ last.op = "user_has_role"
    /\ prev.call.op = "unassign_role"
    /\ prev.call.ret = Ok(TRUE)
    /\ last.user.id \in DOMAIN data_user_roles
    /\ last.ret = Ok(FALSE)

\* C13: on the store new() returns both maps are empty, the three derived
\* queries return Ok(false), the two iterations fail with their error, and
\* unassign_role and remove_permission return Ok(false), for every user,
\* role and permission.
C13_FreshStore ==
    last.op = "new"
    => /\ data_user_roles = HashMapNew
       /\ data_role_permissions = HashMapNew
       /\ \A user \in MyUser, role \in MyRole, permission \in MyPermission :
            /\ Returns(user_has_role(data_user_roles, user, role))
               = {Ok(FALSE)}
            /\ Returns(role_has_permission(data_role_permissions, role,
                                           permission)) = {Ok(FALSE)}
            /\ Returns(user_has_permission(data_user_roles,
                                           data_role_permissions,
                                           user, permission)) = {Ok(FALSE)}
            /\ iter_user_role_ids(data_user_roles, user)
               = {Err(UserHasNoRoles)}
            /\ iter_role_permission_ids(data_role_permissions, role)
               = {Err(RoleHasNoPermissions)}
            /\ unassign_role(data_user_roles, user, role).ret = Ok(FALSE)
            /\ remove_permission(data_role_permissions, role,
                                 permission).ret = Ok(FALSE)

\* C13 witness: the store as new() returns it, before any call.
C13_Witness ==
    /\ last.op = "new"
    /\ DOMAIN data_user_roles = {}
    /\ DOMAIN data_role_permissions = {}

\* C14: whenever role r is assigned to user u and r has no permission
\* entry, user_has_role(u, r) is Ok(true), and user_has_permission(u, p)
\* is Ok(false) unless another role of u grants p; it is never an error.
C14_RoleWithoutPermissions ==
    \A user \in MyUser, role \in MyRole, permission \in MyPermission :
        (/\ <<user.id, role.id>> \in assigned
         /\ GrantedTo(role.id) = {})
        => /\ role.id \notin DOMAIN data_role_permissions
           /\ Returns(user_has_role(data_user_roles, user, role))
              = {Ok(TRUE)}
           /\ \A ret \in Returns(user_has_permission(data_user_roles,
                                     data_role_permissions, user,
                                     permission)) :
                /\ ret.ok
                /\ (\A other \in AssignedTo(user.id) :
                        <<other, permission.id>> \notin granted)
                   => ret = Ok(FALSE)

\* C14 witness: user_has_permission has examined a role of the user that
\* has no permission entry and returned Ok(false), while the permission is
\* granted to another role, which the user does not have.
C14_Witness ==
    /\ last.op = "user_has_permission"
    /\ last.ret = Ok(FALSE)
    /\ \E i \in 1 .. Len(last.examined) :
           last.examined[i] \notin DOMAIN data_role_permissions
    /\ GrantingRoles(data_role_permissions, last.permission) # {}

\* C15: user_has_permission(u, p) takes the roles of u one at a time, each
\* at most once, stops at the first one whose permission set contains p
\* (taking all of them when none does), and returns the same boolean in
\* every enumeration order.
C15_ShortCircuit ==
    /\ last.op = "user_has_permission"
       => LET seen == last.examined
              Hit == GrantingRoles(data_role_permissions, last.permission)
              roles == Related(data_user_roles, last.user.id)
          IN  /\ Items(seen) \subseteq roles
              /\ Cardinality(Items(seen)) = Len(seen)
              /\ \A i \in 1 .. Len(seen) - 1 : seen[i] \notin Hit
              /\ last.ret = Ok(TRUE)
                 => (seen # <<>> /\ seen[Len(seen)] \in Hit)
              /\ last.ret = Ok(FALSE)
                 => (Items(seen) = roles /\ Items(seen) \cap Hit = {})
    /\ last.op = "user_has_permission"
       => Returns(user_has_permission(data_user_roles, data_role_permissions,
                                      last.user, last.permission))
          = {last.ret}

\* C15 witness: user_has_permission returned Ok(true) after one of the two
\* roles of the user: the other role was not examined.
C15_Witness ==
    /\ last.op = "user_has_permission"
    /\ last.ret = Ok(TRUE)
    /\ Len(last.examined) = 1
    /\ Cardinality(Related(data_user_roles, last.user.id)) = 2

\* C17: a call of iter_user_role_ids, iter_role_permission_ids,
\* user_has_role, role_has_permission or user_has_permission leaves both
\* maps as it found them, whatever it returns; on an unknown id it creates
\* no entry.
C17_ReadsChangeNothing ==
    last.op \in DerivedQueries \cup Iterations
    => /\ data_user_roles = old_user_roles
       /\ data_role_permissions = old_role_permissions

\* C17 witness: iter_user_role_ids has failed on a user without entry while
\* the store holds other entries, and the user still has no entry.
C17_Witness ==
    /\ last.op = "iter_user_role_ids"
    /\ ~last.ret.ok
    /\ last.user.id \notin DOMAIN data_user_roles
    /\ DOMAIN data_user_roles # {}
    /\ DOMAIN data_role_permissions # {}

\* the maps m and n relate every key but k to the same set, and have the
\* same keys but for k
SameButFor(m, n, k) ==
    /\ (DOMAIN m) \ {k} = (DOMAIN n) \ {k}
    /\ \A x \in (DOMAIN m) \ {k} : m[x] = n[x]

\* C18: assign_role(u, r) and unassign_role(u, r) change at most the entry
\* of u in the user-role map and leave the role-permission map as it was;
\* add_permission(role, p) and remove_permission(role, p) change at most
\* the entry of role in the role-permission map and leave the user-role map
\* as it was.
C18_OnlyTheNamedEntry ==
    /\ last.op \in UserRoleMutations
       => /\ SameButFor(data_user_roles, old_user_roles, last.user.id)
          /\ data_role_permissions = old_role_permissions
    /\ last.op \in RolePermissionMutations
       => /\ SameButFor(data_role_permissions, old_role_permissions,
                        last.role.id)
          /\ data_user_roles = old_user_roles

\* C18 witness: unassign_role(u, r) has removed r from u while another user
\* has r and r has permissions: both are kept.
C18_Witness ==
    /\ last.op = "unassign_role"
    /\ last.ret = Ok(TRUE)
    /\ \E u \in DOMAIN data_user_roles :
           u # last.user.id /\ last.role.id \in data_user_roles[u]
    /\ last.role.id \in DOMAIN data_role_permissions

\* C19: a mutation that returns Ok(false) leaves both maps exactly as they
\* were; unassign_role / remove_permission on a key without entry creates
\* no entry.
C19_FalseChangesNothing ==
    (last.op \in Mutations /\ last.ret = Ok(FALSE))
    => /\ data_user_roles = old_user_roles
       /\ data_role_permissions = old_role_permissions

\* C19 witness: remove_permission on a role without entry has returned
\* Ok(false) and the role still has no entry.
C19_Witness ==
    /\ last.op = "remove_permission"
    /\ last.role.id \notin DOMAIN old_role_permissions
    /\ last.ret = Ok(FALSE)
    /\ last.role.id \notin DOMAIN data_role_permissions

\* user id u holds permission id p in the maps: the boolean
\* user_has_permission returns there
Holds(user_roles, role_permissions, u, p) ==
    Returns(user_has_permission(user_roles, role_permissions,
                                [id |-> u], [id |-> p])) = {Ok(TRUE)}

\* C20: a call that is no mutation changes neither map, and across one
\* mutation user_has_permission(u, p) turns from false to true
\* only by assign_role(u, r) with r granting p or by add_permission(r, p)
\* with r assigned to u, and from true to false only by unassign_role(u, r)
\* or remove_permission(r, p) with r assigned to u and granting p before
\* the call.
C20_PrivilegeChanges ==
    /\ last.op \notin Mutations
       => /\ data_user_roles = old_user_roles
          /\ data_role_permissions = old_role_permissions
    /\ last.op \in Mutations => \A u \in UserIds, p \in PermissionIds :
        LET before == Holds(old_user_roles, old_role_permissions, u, p)
            after == Holds(data_user_roles, data_role_permissions, u, p)
        IN  /\ (~before /\ after)
               => \/ /\ last.op = "assign_role"
                     /\ last.user.id = u
                     /\ p \in Related(data_role_permissions, last.role.id)
                  \/ /\ last.op = "add_permission"
                     /\ last.permission.id = p
                     /\ last.role.id \in Related(data_user_roles, u)
            /\ (before /\ ~after)
               => /\ \/ last.op = "unassign_role" /\ last.user.id = u
                     \/ last.op = "remove_permission"
                        /\ last.permission.id = p
                  /\ last.role.id \in Related(old_user_roles, u)
                  /\ p \in Related(old_role_permissions, last.role.id)

\* C20 witness: remove_permission(r, p) has taken p from a user, who keeps
\* the role r and, through it, another permission.
C20_Witness ==
    /\ last.op = "remove_permission"
    /\ \E u \in UserIds :
        /\ Holds(old_user_roles, old_role_permissions, u, last.permission.id)
        /\ ~Holds(data_user_roles, data_role_permissions, u,
                  last.permission.id)
        /\ last.role.id \in Related(data_user_roles, u)
        /\ \E q \in PermissionIds :
               Holds(data_user_roles, data_role_permissions, u, q)

\* no key of the map has an empty set
NoEmptySet(m) == \A k \in DOMAIN m : m[k] # {}

\* a mutation is between its two statements and has left an empty set in
\* the map it writes
HalfDone ==
    /\ exclusive
    /\ ~(NoEmptySet(data_user_roles) /\ NoEmptySet(data_role_permissions))

\* C16: with the mutations taken statement by statement and the borrows
\* respected, every query and iteration ran on maps without an empty set
\* (the maps it read are the maps it began with), a half-done mutation is
\* there only while &mut self is held, and a mutation that has returned
\* has done what the whole handler does.
C16_NoTornRead ==
    /\ last.op \in DerivedQueries \cup Iterations
       => /\ ~exclusive
          /\ NoEmptySet(old_user_roles)
          /\ NoEmptySet(old_role_permissions)
          /\ data_user_roles = old_user_roles
          /\ data_role_permissions = old_role_permissions
    /\ ~exclusive
       => (NoEmptySet(data_user_roles) /\ NoEmptySet(data_role_permissions))
    /\ (~exclusive /\ last.op = "assign_role")
       => /\ data_user_roles
             = assign_role(old_user_roles, last.user, last.role).map
          /\ last.ret = assign_role(old_user_roles, last.user, last.role).ret
    /\ (~exclusive /\ last.op = "unassign_role")
       => /\ data_user_roles
             = unassign_role(old_user_roles, last.user, last.role).map
          /\ last.ret
             = unassign_role(old_user_roles, last.user, last.role).ret
    /\ (~exclusive /\ last.op = "add_permission")
       => /\ data_role_permissions
             = add_permission(old_role_permissions, last.role,
                              last.permission).map
          /\ last.ret = add_permission(old_role_permissions, last.role,
                                       last.permission).ret
    /\ (~exclusive /\ last.op = "remove_permission")
       => /\ data_role_permissions
             = remove_permission(old_role_permissions, last.role,
                                 last.permission).map
          /\ last.ret = remove_permission(old_role_permissions, last.role,
                                          last.permission).ret

\* C16 witness: unassign_role has removed the last role of a user and has
\* not yet deleted the entry: the user's set is empty, &mut self is held.
C16_Witness ==
    /\ HalfDone
    /\ last.op = "unassign_role"
    /\ last.user.id \in DOMAIN data_user_roles
    /\ data_user_roles[last.user.id] = {}

\* C21: whenever two mutations about different <<key, member>> pairs were
\* made in a row, making them in the other order from the same maps gives
\* the same two maps and gives each call the result it had.
C21_Commute ==
    last.op = "pair"
    => LET s0 == [user_roles |-> old_user_roles,
                  role_permissions |-> old_role_permissions]
           t1 == Apply(s0, last.second)
           t2 == Apply(t1, last.first)
       IN  /\ t2.user_roles = data_user_roles
           /\ t2.role_permissions = data_role_permissions
           /\ t1.ret = last.second_ret
           /\ t2.ret = last.first_ret

\* C21 witness: unassign_role(u, r2) has pruned the entry of u and
\* assign_role(u, r1) has created it again; in the other order the entry
\* is never absent.
C21_Witness ==
    /\ last.op = "pair"
    /\ last.first.op = "unassign_role"
    /\ last.second.op = "assign_role"
    /\ last.first.user = last.second.user
    /\ Related(old_user_roles, last.first.user.id) = {last.first.role.id}
    /\ last.first_ret = Ok(TRUE)
    /\ last.second_ret = Ok(TRUE)
    /\ Related(data_user_roles, last.first.user.id) = {last.second.role.id}

====
